---- MODULE Spec2Model ----
(***************************************************************************)
(* Store-monitoring report service: the uptime/downtime aggregation of     *)
(* app/services/report_service.py and the trigger/poll surface of          *)
(* app/api/report_api.py.                                                  *)
(*                                                                         *)
(* Time is counted in whole seconds.  An instant is the number of seconds  *)
(* since Monday 2024-10-21 00:00:00 UTC; a timezone-aware datetime is      *)
(* represented by its instant (pytz and pandas compare and subtract aware  *)
(* datetimes by instant), and its wall-clock fields are derived from the   *)
(* zone's offset at that instant.  The six output fields are kept as       *)
(* fixed-point numbers with six decimals (value * 10^6), the precision     *)
(* round(x, 6) leaves.                                                     *)
(***************************************************************************)
EXTENDS Integers, Sequences, FiniteSets, TLC

VARIABLES
    store_status,     \* table store_status: rows [store_id, timestamp_utc, status]
    business_hours,   \* table business_hours: rows [store_id, day_of_week, start_time_local, end_time_local]
    store_timezone,   \* table store_timezone: rows [store_id, timezone_str]
    files,            \* the report files written so far: [path |-> .., rows |-> ..]
    run,              \* outcome of the last direct generate_report() run
    report_status,    \* report_api.report_status: job id -> status record
    tasks,            \* position of each job's background run_report_task
    response          \* what the last get_report call returned

vars == <<store_status, business_hours, store_timezone, files, run,
          report_status, tasks, response>>

db == <<store_status, business_hours, store_timezone>>

----------------------------------------------------------------------------
(* Units *)

SecondsPerMinute == 60
SecondsPerHour == 3600
SecondsPerDay == 24 * SecondsPerHour
SecondsPerWeek == 7 * SecondsPerDay
Micro == 1000000

Max2(a, b) == IF a >= b THEN a ELSE b
Min2(a, b) == IF a <= b THEN a ELSE b

RECURSIVE GCD(_, _)
GCD(a, b) == IF b = 0 THEN a ELSE GCD(b, a % b)

RECURSIVE SumSet(_, _)
\* the sum of f[x] over the finite set S
SumSet(S, f) ==
    IF S = {} THEN 0
    ELSE LET x == CHOOSE y \in S : TRUE IN f[x] + SumSet(S \ {x}, f)

\* round(num / den) to the nearest integer, halves to even (Python's round)
RoundDiv(num, den) ==
    LET q == num \div den
        r == num % den
    IN  IF 2 * r < den THEN q
        ELSE IF 2 * r > den THEN q + 1
        ELSE IF q % 2 = 0 THEN q ELSE q + 1

\* float(round((secs / 60.0) / unit, 6)), as a count of millionths
Round6(secs, unit) ==
    LET den == SecondsPerMinute * unit
        g == GCD(Micro, den)
    IN  (secs \div den) * Micro + RoundDiv((secs % den) * (Micro \div g), den \div g)

----------------------------------------------------------------------------
(* Timezones (pytz) *)

\* 2024-11-03 07:00:00 UTC, when America/Chicago leaves daylight time
ChicagoDstEnd == 13 * SecondsPerDay + 7 * SecondsPerHour

\* the zones of the model: UTC offsets in and out of daylight time, and the
\* instant daylight time ends (fixed-offset zones have one offset)
ZoneTable ==
    "UTC" :> [std |-> 0, dst |-> 0, dstEnd |-> 0]
    @@ "America/Phoenix" :> [std |-> -7 * SecondsPerHour, dst |-> -7 * SecondsPerHour,
                             dstEnd |-> 0]
    @@ "America/Chicago" :> [std |-> -6 * SecondsPerHour, dst |-> -5 * SecondsPerHour,
                             dstEnd |-> ChicagoDstEnd]

KnownZones == DOMAIN ZoneTable
DefaultZone == "America/Chicago"
IsFixedOffset(tz) == ZoneTable[tz].std = ZoneTable[tz].dst

\* utcoffset of the zone at instant u
Offset(tz, u) == IF u < ZoneTable[tz].dstEnd THEN ZoneTable[tz].dst ELSE ZoneTable[tz].std

\* .date() of the aware datetime at instant u: days since the model's epoch
LocalDate(tz, u) == (u + Offset(tz, u)) \div SecondsPerDay
\* wall-clock time of day at instant u
LocalTimeOfDay(tz, u) == (u + Offset(tz, u)) % SecondsPerDay
\* .weekday(): the epoch is a Monday (0)
Weekday(tz, u) == LocalDate(tz, u) % 7

\* tz.localize(datetime.combine(d, t)) with is_dst=False: an ambiguous wall
\* time is taken as standard time
_localize_naive(tz, d, t) ==
    LET n == d * SecondsPerDay + t
        uS == n - ZoneTable[tz].std
        uD == n - ZoneTable[tz].dst
    IN  IF uS >= ZoneTable[tz].dstEnd THEN uS ELSE uD

----------------------------------------------------------------------------
(* Helpers of report_service.py *)

None == "None"

\* a datetime.time as seconds since midnight
TimeOf(hh, mm, ss) == hh * SecondsPerHour + mm * SecondsPerMinute + ss

\* Values a business-hour column can hold: a datetime.time, a timedelta
\* (whole seconds in s), an "HH:MM:SS" string (its three numbers), or NULL.
TimeValue(hh, mm, ss) == [kind |-> "time", h |-> hh, m |-> mm, s |-> ss]
DeltaValue(secs) == [kind |-> "timedelta", h |-> 0, m |-> 0, s |-> secs]
StrValue(hh, mm, ss) == [kind |-> "str", h |-> hh, m |-> mm, s |-> ss]
NullValue == [kind |-> "null", h |-> 0, m |-> 0, s |-> 0]

Returned(v) == [ok |-> TRUE, value |-> v, error |-> None]
Raised(e) == [ok |-> FALSE, value |-> None, error |-> e]

\* datetime.strptime(v, "%H:%M:%S") accepts these fields only
StrParses(v) == v.h \in 0..23 /\ v.m \in 0..59 /\ v.s \in 0..59

_normalize_to_time(v) ==
    IF v.kind = "time" THEN Returned(TimeOf(v.h, v.m, v.s))
    ELSE IF v.kind = "timedelta" THEN
        LET total_seconds == v.s % (24 * SecondsPerHour)
            hh == total_seconds \div SecondsPerHour
            mm == (total_seconds % SecondsPerHour) \div SecondsPerMinute
            ss == total_seconds % SecondsPerMinute
        IN  Returned(TimeOf(hh, mm, ss))
    ELSE IF v.kind = "str" THEN
        IF StrParses(v) THEN Returned(TimeOf(v.h, v.m, v.s)) ELSE Raised("ValueError")
    ELSE Raised("TypeError")

get_max_timestamp(status) ==
    IF status = {} THEN None
    ELSE CHOOSE t \in {r.timestamp_utc : r \in status} :
             \A r \in status : r.timestamp_utc <= t

\* pytz.timezone raises UnknownTimeZoneError for a name it does not know
get_store_timezone(timezones, store_id) ==
    LET rows == {r \in timezones : r.store_id = store_id}
        name == IF rows = {} THEN DefaultZone ELSE (CHOOSE r \in rows : TRUE).timezone_str
    IN  IF name \in KnownZones THEN Returned(name) ELSE Raised("UnknownTimeZoneError")

\* faulty variant: rows that cannot be normalized are skipped
get_business_hours_skipping(hours, store_id, day_of_week) ==
    LET rows == {r \in hours : r.store_id = store_id /\ r.day_of_week = day_of_week}
        good == {r \in rows : _normalize_to_time(r.start_time_local).ok
                               /\ _normalize_to_time(r.end_time_local).ok}
    IN  [ok |-> TRUE, errors |-> {},
         ranges |-> {[row |-> r,
                      start |-> _normalize_to_time(r.start_time_local).value,
                      end |-> _normalize_to_time(r.end_time_local).value] : r \in good}]

\* The ranges of one weekday, one per row (so equal ranges of two rows both
\* count); the default when the weekday has no row.  errors: what normalizing
\* the rows can raise.
get_business_hours(hours, store_id, day_of_week) ==
    LET rows == {r \in hours : r.store_id = store_id /\ r.day_of_week = day_of_week}
        bad == {r \in rows : ~ _normalize_to_time(r.start_time_local).ok
                              \/ ~ _normalize_to_time(r.end_time_local).ok}
    IN  IF rows = {} THEN
            [ok |-> TRUE, errors |-> {},
             ranges |-> {[row |-> [store_id |-> store_id, day_of_week |-> day_of_week,
                                   start_time_local |-> TimeValue(0, 0, 0),
                                   end_time_local |-> TimeValue(23, 59, 59)],
                          start |-> TimeOf(0, 0, 0), end |-> TimeOf(23, 59, 59)]}]
        ELSE IF bad # {} THEN
            [ok |-> FALSE, ranges |-> {},
             errors |-> {IF _normalize_to_time(r.start_time_local).ok
                         THEN _normalize_to_time(r.end_time_local).error
                         ELSE _normalize_to_time(r.start_time_local).error : r \in bad}]
        ELSE
            [ok |-> TRUE, errors |-> {},
             ranges |-> {[row |-> r,
                          start |-> _normalize_to_time(r.start_time_local).value,
                          end |-> _normalize_to_time(r.end_time_local).value] : r \in rows}]

----------------------------------------------------------------------------
(* calculate_uptime_downtime *)

\* The rows a query returns ORDER BY timestamp_utc ASC: every order of the
\* rows that is ascending in time (rows of equal time come in either order).
RECURSIVE OrderedByTimestamp(_)
OrderedByTimestamp(rows) ==
    IF rows = {} THEN {<< >>}
    ELSE LET first == {r \in rows : \A q \in rows : r.timestamp_utc <= q.timestamp_utc}
         IN  UNION {{<<r>> \o rest : rest \in OrderedByTimestamp(rows \ {r})} : r \in first}

\* lines 89-92: the store's logs of the last week
QueryLogs(status, store_id, week_start_utc) ==
    OrderedByTimestamp({r \in status : r.store_id = store_id
                                       /\ r.timestamp_utc >= week_start_utc})

\* faulty variant: every status persists to now: the validity intervals overlap
NextTimeAlwaysNow(logs, i, now_local) == now_local

\* lines 105-109: each status persists until the next poll, the last one to now
NextTime(logs, i, now_local) ==
    IF i < Len(logs) THEN logs[i + 1].timestamp_utc ELSE now_local

\* faulty variant: the walk stops before the interval's last day (< for <=)
RECURSIVE DayCursorsStopEarly(_, _, _)
DayCursorsStopEarly(tz, day_cursor, end_local) ==
    IF LocalDate(tz, day_cursor) < LocalDate(tz, end_local)
    THEN {day_cursor} \cup DayCursorsStopEarly(tz, day_cursor + SecondsPerDay, end_local)
    ELSE {}

\* lines 125-126, 173: the values day_cursor takes.  The cursor is a pandas
\* Timestamp, so adding timedelta(days=1) moves it 24 hours on.
RECURSIVE DayCursors(_, _, _)
DayCursors(tz, day_cursor, end_local) ==
    IF LocalDate(tz, day_cursor) <= LocalDate(tz, end_local)
    THEN {day_cursor} \cup DayCursors(tz, day_cursor + SecondsPerDay, end_local)
    ELSE {}

\* lines 132-146: the concrete segments of one range on the cursor's day
Segments(tz, day_cursor, range) ==
    LET d == LocalDate(tz, day_cursor)
        bh_start_local == _localize_naive(tz, d, range.start)
        bh_end_local == _localize_naive(tz, d, range.end)
        end_of_day == _localize_naive(tz, d, TimeOf(23, 59, 59))
        next_day == LocalDate(tz, day_cursor + SecondsPerDay)
        start_of_next == _localize_naive(tz, next_day, TimeOf(0, 0, 0))
        next_end == _localize_naive(tz, next_day, range.end)
    IN  IF bh_end_local <= bh_start_local
        THEN {[n |-> 1, seg_start |-> bh_start_local, seg_end |-> end_of_day],
              [n |-> 2, seg_start |-> start_of_next, seg_end |-> next_end]}
        ELSE {[n |-> 1, seg_start |-> bh_start_local, seg_end |-> bh_end_local]}

\* lines 150-153: the observation interval cut to a segment and to now
Overlap(start_local, end_local, seg, now_local) ==
    [overlap_start |-> Max2(start_local, seg.seg_start),
     overlap_end |-> Min2(Min2(end_local, seg.seg_end), now_local)]

\* lines 119-153: every non-empty overlap the loops reach, one per (log, day
\* cursor, range, segment)
Overlaps(hours, store_id, tz, logs, now_local) ==
    UNION {UNION {UNION {
        {[i |-> i, day_cursor |-> c, row |-> range.row, n |-> seg.n,
          is_active |-> (logs[i].status = "active"),
          seg_start |-> seg.seg_start, seg_end |-> seg.seg_end,
          overlap_start |-> Overlap(logs[i].timestamp_utc, NextTime(logs, i, now_local),
                                    seg, now_local).overlap_start,
          overlap_end |-> Overlap(logs[i].timestamp_utc, NextTime(logs, i, now_local),
                                  seg, now_local).overlap_end] :
            seg \in {g \in Segments(tz, c, range) :
                       Overlap(logs[i].timestamp_utc, NextTime(logs, i, now_local),
                               g, now_local).overlap_start
                       < Overlap(logs[i].timestamp_utc, NextTime(logs, i, now_local),
                                 g, now_local).overlap_end}} :
          range \in get_business_hours(hours, store_id, Weekday(tz, c)).ranges} :
        c \in DayCursors(tz, logs[i].timestamp_utc, NextTime(logs, i, now_local))} :
      i \in 1..Len(logs)}

\* faulty variant: the day window starts half an hour back
WindowsShortDay ==
    [hour |-> [back |-> SecondsPerHour, unit |-> 1],
     day |-> [back |-> 30 * SecondsPerMinute, unit |-> 60],
     week |-> [back |-> SecondsPerWeek, unit |-> 60]]

\* lines 155-159: the three windows: how far back each starts, and its unit
\* (minutes per reported unit)
Windows ==
    [hour |-> [back |-> SecondsPerHour, unit |-> 1],
     day |-> [back |-> SecondsPerDay, unit |-> 60],
     week |-> [back |-> SecondsPerWeek, unit |-> 60]]

\* lines 160-167: the seconds of one overlap inside a window
WindowSeconds(o, win_start_local, now_local) ==
    LET w_start == Max2(o.overlap_start, win_start_local)
        w_end == Min2(o.overlap_end, now_local)
    IN  IF w_start < w_end THEN w_end - w_start ELSE 0

\* faulty variant: the status test is inverted: inactive time is added to uptime
AccumulatedInverted(overlaps, is_active, win_start_local, now_local) ==
    LET mine == {o \in overlaps : o.is_active # is_active}
    IN  SumSet(mine, [o \in mine |-> WindowSeconds(o, win_start_local, now_local)])

\* lines 168-171: the seconds added to one accumulator
Accumulated(overlaps, is_active, win_start_local, now_local) ==
    LET mine == {o \in overlaps : o.is_active = is_active}
    IN  SumSet(mine, [o \in mine |-> WindowSeconds(o, win_start_local, now_local)])

\* lines 94-100: the record for a store with no logs in the week
ZeroRow(store_id) ==
    [store_id |-> store_id,
     uptime_last_hour |-> 0, downtime_last_hour |-> 0,
     uptime_last_day |-> 0, downtime_last_day |-> 0,
     uptime_last_week |-> 0, downtime_last_week |-> 0]

\* lines 111-181: the record from the overlaps, rounded
ResultRow(store_id, overlaps, now) ==
    [store_id |-> store_id,
     uptime_last_hour |->
        Round6(Accumulated(overlaps, TRUE, now - Windows.hour.back, now), Windows.hour.unit),
     downtime_last_hour |->
        Round6(Accumulated(overlaps, FALSE, now - Windows.hour.back, now), Windows.hour.unit),
     uptime_last_day |->
        Round6(Accumulated(overlaps, TRUE, now - Windows.day.back, now), Windows.day.unit),
     downtime_last_day |->
        Round6(Accumulated(overlaps, FALSE, now - Windows.day.back, now), Windows.day.unit),
     uptime_last_week |->
        Round6(Accumulated(overlaps, TRUE, now - Windows.week.back, now), Windows.week.unit),
     downtime_last_week |->
        Round6(Accumulated(overlaps, FALSE, now - Windows.week.back, now), Windows.week.unit)]

\* lines 126-128: the (log, day cursor) steps whose business hours cannot be
\* read, and what the first of them raises
FailingSteps(hours, store_id, tz, logs, now_local) ==
    {st \in UNION {{[i |-> i, day_cursor |-> c] :
                      c \in DayCursors(tz, logs[i].timestamp_utc,
                                       NextTime(logs, i, now_local))} : i \in 1..Len(logs)} :
        ~ get_business_hours(hours, store_id, Weekday(tz, st.day_cursor)).ok}

FirstFailure(steps) ==
    CHOOSE st \in steps : \A q \in steps :
        st.i < q.i \/ (st.i = q.i /\ st.day_cursor <= q.day_cursor)

\* calculate_uptime_downtime for one order of the logs: what it returns or
\* raises (errors: the exceptions the first unreadable weekday can raise)
Calculate(hours, timezones, store_id, now, logs) ==
    LET tzr == get_store_timezone(timezones, store_id)
        tz == tzr.value
        failing == FailingSteps(hours, store_id, tz, logs, now)
    IN  IF ~ tzr.ok THEN {Raised(tzr.error)}
        ELSE IF logs = << >> THEN {Returned(ZeroRow(store_id))}
        ELSE IF failing # {} THEN
            {Raised(e) : e \in get_business_hours(hours, store_id,
                                 Weekday(tz, FirstFailure(failing).day_cursor)).errors}
        ELSE {Returned(ResultRow(store_id, Overlaps(hours, store_id, tz, logs, now), now))}

\* every outcome calculate_uptime_downtime(store_id, db, now) can have
calculate_uptime_downtime(status, hours, timezones, store_id, now) ==
    UNION {Calculate(hours, timezones, store_id, now, logs) :
             logs \in QueryLogs(status, store_id, now - SecondsPerWeek)}

----------------------------------------------------------------------------
(* generate_report *)

\* a file path: a fixed text and, in the paths trigger_report builds, the
\* report id (0: none)
ReportPath(text, report_id) == [text |-> text, report_id |-> report_id]
NoPath == ReportPath(None, 0)

\* faulty variant: only the stores polled in the week before the last poll
StoreIdsOfWeek(status) ==
    {r.store_id : r \in {q \in status :
        q.timestamp_utc >= get_max_timestamp(status) - SecondsPerWeek}}

\* line 191: the distinct store ids of the whole store_status table
StoreIds(status) == {r.store_id : r \in status}

\* line 193: the calls of the list comprehension, one per store id in the
\* order the DISTINCT query yields them (any order), each with what it
\* returned or raised; a call that raises is the last
RECURSIVE ReportCalls(_, _, _, _, _)
ReportCalls(status, hours, timezones, now, store_ids) ==
    IF store_ids = {} THEN {<< >>}
    ELSE UNION {UNION {
            LET call == [store_id |-> id, ok |-> o.ok, value |-> o.value, error |-> o.error]
            IN  IF ~ o.ok THEN {<<call>>}
                ELSE {<<call>> \o rest :
                        rest \in ReportCalls(status, hours, timezones, now, store_ids \ {id})} :
            o \in calculate_uptime_downtime(status, hours, timezones, id, now)} :
          id \in store_ids}

AllReturned(calls) == \A i \in 1..Len(calls) : calls[i].ok

\* lines 187-200: every outcome of generate_report(output_path): the path
\* returned and the rows written to it, or the error raised (nothing written)
generate_report(status, hours, timezones, output_path) ==
    {[ok |-> AllReturned(calls),
      path |-> IF AllReturned(calls) THEN output_path ELSE NoPath,
      rows |-> IF AllReturned(calls) THEN [i \in 1..Len(calls) |-> calls[i].value]
               ELSE << >>,
      error |-> IF AllReturned(calls) THEN None ELSE calls[Len(calls)].error,
      calls |-> calls] :
        calls \in ReportCalls(status, hours, timezones, get_max_timestamp(status),
                              StoreIds(status))}

----------------------------------------------------------------------------
(* The stored data the model ranges over *)

MaxLogs == 3      \* most store_status rows of the store under report
MaxRules == 2     \* most business_hours rows
MaxJobs == 2      \* most reports triggered

\* the instant hh:mm UTC on day n after the epoch (day 13 is Sunday 2024-11-03,
\* the day America/Chicago leaves daylight time; day 14 is a Monday)
At(n, hh, mm) == n * SecondsPerDay + TimeOf(hh, mm, 0)

Statuses == {"active", "inactive"}

StatusRows(store_id, times) ==
    {[store_id |-> store_id, timestamp_utc |-> t, status |-> st] :
        t \in times, st \in Statuses}

UpTo(S, n) == {x \in SUBSET S : Cardinality(x) <= n}

\* polls of store S1 when no business hours are stored: more than a week
\* old, a week before a later poll, around the end of daylight time, and
\* after the next UTC midnight
OpenTimes == {At(1, 12, 0), At(6, 10, 0), At(13, 5, 30), At(13, 10, 0), At(14, 0, 45)}

\* polls of store S1 when business hours are stored: Friday night, around
\* the end of daylight time, Sunday 08:00 and Sunday 22:00 UTC
HoursLogs ==
    {[store_id |-> "S1", timestamp_utc |-> At(11, 22, 0), status |-> "active"],
     [store_id |-> "S1", timestamp_utc |-> At(13, 5, 30), status |-> "inactive"],
     [store_id |-> "S1", timestamp_utc |-> At(13, 8, 0), status |-> "active"],
     [store_id |-> "S1", timestamp_utc |-> At(13, 8, 0), status |-> "inactive"],
     [store_id |-> "S1", timestamp_utc |-> At(13, 22, 0), status |-> "active"],
     [store_id |-> "S1", timestamp_utc |-> At(13, 22, 0), status |-> "inactive"]}

OtherLog(t) == {[store_id |-> "S2", timestamp_utc |-> t, status |-> "active"]}

\* the polls of the other store, S2: none, an old one, or one that sets "now"
OpenOtherLogs == {{}, OtherLog(At(1, 12, 0)), OtherLog(At(14, 0, 45))}
HoursOtherLogs == {{}, OtherLog(At(13, 10, 0)), OtherLog(At(14, 2, 0))}

HourRow(day, start, end) ==
    [store_id |-> "S1", day_of_week |-> day, start_time_local |-> start,
     end_time_local |-> end]

\* business-hour rows of S1: Sunday 09:00-17:00, Sunday 17:00-22:00, Sunday
\* 12:00-20:00 as strings (overlapping both), Sunday 22:00-02:00 (crossing
\* midnight), Monday 22:00-02:00 as timedeltas (the end a day late), and two
\* rows that cannot be normalized
HourRows ==
    {HourRow(6, TimeValue(9, 0, 0), TimeValue(17, 0, 0)),
     HourRow(6, TimeValue(17, 0, 0), TimeValue(22, 0, 0)),
     HourRow(6, StrValue(12, 0, 0), StrValue(20, 0, 0)),
     HourRow(6, TimeValue(22, 0, 0), TimeValue(2, 0, 0)),
     HourRow(0, DeltaValue(22 * SecondsPerHour), DeltaValue(26 * SecondsPerHour)),
     HourRow(6, StrValue(25, 0, 0), TimeValue(17, 0, 0)),
     HourRow(0, TimeValue(9, 0, 0), NullValue)}

ZoneRows(names) == {{}} \cup {{[store_id |-> "S1", timezone_str |-> z]} : z \in names}

NoRun == [done |-> FALSE, ok |-> FALSE, path |-> NoPath, rows |-> << >>, error |-> None,
          calls |-> << >>]
NoResponse == [kind |-> None, report_id |-> 0, status |-> None, file |-> NoPath,
               error |-> None]
NoJobs == [j \in {} |-> None]

Idle ==
    /\ files = {}
    /\ run = NoRun
    /\ report_status = NoJobs
    /\ tasks = NoJobs
    /\ response = NoResponse

\* no business hours stored: every weekday takes the default
InitOpen ==
    /\ \E mine \in UpTo(StatusRows("S1", OpenTimes), MaxLogs), other \in OpenOtherLogs :
           store_status = mine \cup other
    /\ business_hours = {}
    /\ store_timezone \in ZoneRows({"UTC", "America/Phoenix", "America/Chicago", "Mars/Base"})

InitHours ==
    /\ \E mine \in UpTo(HoursLogs, MaxLogs), other \in HoursOtherLogs :
           store_status = mine \cup other
    /\ business_hours \in UpTo(HourRows, MaxRules) \ {{}}
    /\ store_timezone \in ZoneRows({"UTC", "America/Phoenix"})

\* store S1 in UTC polled twice, 90 and 30 minutes before S2's poll sets "now"
PollTimes == {At(d, hh, mm) : d \in {13, 14}, hh \in {0, 1, 9, 23}, mm \in {0, 15, 30, 45}}

InitTwoPolls ==
    /\ \E T \in PollTimes :
           store_status =
               {[store_id |-> "S1", timestamp_utc |-> T - 90 * SecondsPerMinute,
                 status |-> "active"],
                [store_id |-> "S1", timestamp_utc |-> T - 30 * SecondsPerMinute,
                 status |-> "inactive"]} \cup OtherLog(T)
    /\ business_hours = {}
    /\ store_timezone \in ZoneRows({"UTC"}) \ {{}}

Init == Idle /\ (InitOpen \/ InitHours \/ InitTwoPolls)

----------------------------------------------------------------------------
(* A report run from the command line: generate_report() *)

DefaultPath == ReportPath("output/report.csv", 0)

RunReport ==
    /\ ~ run.done
    /\ \E out \in generate_report(store_status, business_hours, store_timezone, DefaultPath) :
        /\ run' = [done |-> TRUE, ok |-> out.ok, path |-> out.path, rows |-> out.rows,
                   error |-> out.error, calls |-> out.calls]
        /\ files' = IF out.ok THEN files \cup {[path |-> out.path, rows |-> out.rows]}
                    ELSE files
    /\ UNCHANGED <<db, report_status, tasks, response>>

Next == RunReport

Spec == Init /\ [][Next]_vars

----------------------------------------------------------------------------
(* report_api.py: trigger_report, run_report_task, get_report *)

\* lines 13-22.  uuid4 mints an identifier no earlier call returned.
trigger_report ==
    /\ Cardinality(DOMAIN report_status) < MaxJobs
    /\ LET report_id == Cardinality(DOMAIN report_status) + 1
           output_path == ReportPath("output/report_{report_id}.csv", report_id)
       IN  /\ report_status' = report_status @@
                  (report_id :> [status |-> "Running", file |-> NoPath, error |-> None])
           /\ tasks' = tasks @@
                  (report_id :> [pc |-> "queued", output_path |-> output_path,
                                 path |-> NoPath, error |-> None])
           /\ response' = [NoResponse EXCEPT !.kind = "trigger", !.report_id = report_id]
    /\ UNCHANGED <<db, files, run>>

\* line 26: the background task calls generate_report, which returns the
\* path after writing the file, or raises
TaskGenerate(report_id) ==
    /\ report_id \in DOMAIN tasks
    /\ tasks[report_id].pc = "queued"
    /\ \E out \in generate_report(store_status, business_hours, store_timezone,
                                  tasks[report_id].output_path) :
        /\ tasks' = [tasks EXCEPT ![report_id].pc = IF out.ok THEN "returned" ELSE "raised",
                                  ![report_id].path = out.path,
                                  ![report_id].error = out.error]
        /\ files' = IF out.ok THEN files \cup {[path |-> out.path, rows |-> out.rows]}
                    ELSE files
    /\ UNCHANGED <<db, run, report_status, response>>

\* faulty variant: the whole dictionary is replaced by the one entry
TaskCompleteReplacingAll(report_id) ==
    /\ report_id \in DOMAIN tasks
    /\ tasks[report_id].pc = "returned"
    /\ report_status' = (report_id :>
            [status |-> "Complete", file |-> tasks[report_id].path, error |-> None])
    /\ tasks' = [tasks EXCEPT ![report_id].pc = "done"]
    /\ UNCHANGED <<db, files, run, response>>

\* line 27
TaskComplete(report_id) ==
    /\ report_id \in DOMAIN tasks
    /\ tasks[report_id].pc = "returned"
    /\ report_status' = [report_status EXCEPT ![report_id] =
            [status |-> "Complete", file |-> tasks[report_id].path, error |-> None]]
    /\ tasks' = [tasks EXCEPT ![report_id].pc = "done"]
    /\ UNCHANGED <<db, files, run, response>>

\* lines 28-29
TaskFail(report_id) ==
    /\ report_id \in DOMAIN tasks
    /\ tasks[report_id].pc = "raised"
    /\ report_status' = [report_status EXCEPT ![report_id] =
            [status |-> "Failed", file |-> NoPath, error |-> tasks[report_id].error]]
    /\ tasks' = [tasks EXCEPT ![report_id].pc = "done"]
    /\ UNCHANGED <<db, files, run, response>>

\* lines 32-45
get_report(report_id) ==
    /\ response' =
          IF report_id \notin DOMAIN report_status
          THEN [NoResponse EXCEPT !.kind = "get", !.report_id = report_id,
                                  !.error = "Invalid report_id"]
          ELSE IF report_status[report_id].status = "Running"
          THEN [NoResponse EXCEPT !.kind = "get", !.report_id = report_id,
                                  !.status = "Running"]
          ELSE IF report_status[report_id].status = "Complete"
          THEN [NoResponse EXCEPT !.kind = "get", !.report_id = report_id,
                                  !.status = "Complete",
                                  !.file = report_status[report_id].file]
          ELSE [NoResponse EXCEPT !.kind = "get", !.report_id = report_id,
                                  !.status = "Failed",
                                  !.error = report_status[report_id].error]
    /\ UNCHANGED <<db, files, run, report_status, tasks>>

\* what is stored while the service runs: S1 polled on Sunday morning or
\* Sunday night (S2's poll sets "now"), or only S2 polled
ApiLogs ==
    {OtherLog(At(13, 10, 0)),
     StatusRows("S1", {At(13, 8, 0)}) \cup OtherLog(At(13, 10, 0)),
     {[store_id |-> "S1", timestamp_utc |-> At(13, 22, 0), status |-> "inactive"]}
        \cup OtherLog(At(14, 2, 0))}

\* the business-hour rows stored while the service runs: two rows that
\* normalize and the two that do not
ApiHourRows ==
    {HourRow(6, TimeValue(9, 0, 0), TimeValue(17, 0, 0)),
     HourRow(6, TimeValue(22, 0, 0), TimeValue(2, 0, 0)),
     HourRow(6, StrValue(25, 0, 0), TimeValue(17, 0, 0)),
     HourRow(0, TimeValue(9, 0, 0), NullValue)}

InitApi ==
    /\ Idle
    /\ store_status \in ApiLogs
    /\ business_hours \in UpTo(ApiHourRows, MaxRules)
    /\ store_timezone \in ZoneRows({"UTC", "Mars/Base"})

NextApi ==
    \/ trigger_report
    \/ \E report_id \in 1..MaxJobs : TaskGenerate(report_id)
    \/ \E report_id \in 1..MaxJobs : TaskComplete(report_id)
    \/ \E report_id \in 1..MaxJobs : TaskFail(report_id)
    \/ \E report_id \in 1..MaxJobs : get_report(report_id)

SpecApi == InitApi /\ [][NextApi]_vars

----------------------------------------------------------------------------
(* Properties *)

\* the reference timestamp of a run over the stored polls
Reference == get_max_timestamp(store_status)
WeekLogs(store_id) ==
    {r \in store_status : r.store_id = store_id
                          /\ r.timestamp_utc >= Reference - SecondsPerWeek}
HoursOf(store_id) == {r \in business_hours : r.store_id = store_id}
ZoneOf(store_id) == get_store_timezone(store_timezone, store_id).value
FirstLog(store_id) ==
    CHOOSE t \in {r.timestamp_utc : r \in WeekLogs(store_id)} :
        \A r \in WeekLogs(store_id) : t <= r.timestamp_utc

\* the calls of the run that returned a record
ReturnedCalls == {i \in 1..Len(run.calls) : run.calls[i].ok}

UpDown(row, window) ==
    IF window = "hour" THEN row.uptime_last_hour + row.downtime_last_hour
    ELSE IF window = "day" THEN row.uptime_last_day + row.downtime_last_day
    ELSE row.uptime_last_week + row.downtime_last_week

WindowNames == {"hour", "day", "week"}
Abs(x) == IF x < 0 THEN -x ELSE x

\* always open by default, with a poll in the week
AlwaysOpenCall(i) ==
    /\ i \in ReturnedCalls
    /\ WeekLogs(run.calls[i].store_id) # {}
    /\ HoursOf(run.calls[i].store_id) = {}

\* C1 as stated: for a location with a poll in the trailing week and no
\* business-hour rows, uptime + downtime of each window is the window's full
\* duration (60 minutes, 24 hours, 168 hours), up to the rounding.
C1_SumIsWindowDuration ==
    \A i \in 1..Len(run.calls) : AlwaysOpenCall(i) =>
        \A w \in WindowNames :
            Abs(UpDown(run.calls[i].value, w)
                - Round6(Windows[w].back, Windows[w].unit)) <= 1

\* the seconds from a to b that the default range 00:00:00-23:59:59 covers in
\* a fixed-offset zone: all but the last second of each local day
DefaultOpenSeconds(tz, a, b) ==
    IF a >= b THEN 0 ELSE (b - a) - (LocalDate(tz, b) - LocalDate(tz, a))

\* C1 amended: in a fixed-offset zone, uptime + downtime of each window is the
\* time from the later of the window's start and the location's first poll of
\* the week to the reference, less the last second of every local day in
\* between; so it is at most the window's duration.
C1_SumIsCoveredTime ==
    \A i \in 1..Len(run.calls) :
        (AlwaysOpenCall(i) /\ IsFixedOffset(ZoneOf(run.calls[i].store_id))) =>
            \A w \in WindowNames :
                LET id == run.calls[i].store_id
                    from == Max2(Reference - Windows[w].back, FirstLog(id))
                    covered == DefaultOpenSeconds(ZoneOf(id), from, Reference)
                IN  /\ Abs(UpDown(run.calls[i].value, w)
                           - Round6(covered, Windows[w].unit)) <= 1
                    /\ UpDown(run.calls[i].value, w)
                           <= Round6(Windows[w].back, Windows[w].unit)

\* a location polled from the start of the week on: 168 hours less 7 seconds
C1_Witness ==
    \E i \in 1..Len(run.calls) :
        /\ AlwaysOpenCall(i)
        /\ IsFixedOffset(ZoneOf(run.calls[i].store_id))
        /\ FirstLog(run.calls[i].store_id) = Reference - SecondsPerWeek
        /\ UpDown(run.calls[i].value, "week") = 167998056
        /\ UpDown(run.calls[i].value, "hour") = 60000000

Minutes(n) == n * SecondsPerMinute
Row(i) == run.calls[i].value
StoreOf(i) == run.calls[i].store_id
LogsOf(store_id) == {r \in store_status : r.store_id = store_id}

\* the scenario of C2: timezone UTC, always open, exactly two polls: active
\* 90 minutes and inactive 30 minutes before the reference
TwoPollsCall(i) ==
    /\ i \in ReturnedCalls
    /\ HoursOf(StoreOf(i)) = {}
    /\ [store_id |-> StoreOf(i), timezone_str |-> "UTC"] \in store_timezone
    /\ LogsOf(StoreOf(i)) =
          {[store_id |-> StoreOf(i), timestamp_utc |-> Reference - Minutes(90),
            status |-> "active"],
           [store_id |-> StoreOf(i), timestamp_utc |-> Reference - Minutes(30),
            status |-> "inactive"]}

\* C2 as stated: in that scenario, for any reference T, uptime_last_hour =
\* 30.0 and downtime_last_hour = 30.0 minutes, uptime_last_day = 1.5 and
\* downtime_last_day = 0.5 hours.
C2_TwoPollsAsStated ==
    \A i \in 1..Len(run.calls) : TwoPollsCall(i) =>
        /\ Row(i).uptime_last_hour = 30000000
        /\ Row(i).downtime_last_hour = 30000000
        /\ Row(i).uptime_last_day = 1500000
        /\ Row(i).downtime_last_day = 500000

\* 1 when a UTC midnight lies in (a, b], else 0 (for a, b less than a day apart)
MidnightIn(a, b) == (b \div SecondsPerDay) - (a \div SecondsPerDay)

\* C2 amended: uptime_last_hour = 30.0, downtime_last_hour = 30.0,
\* uptime_last_day = 1.0 (the active interval T-90min..T-30min is one hour)
\* and downtime_last_day = 0.5, each less the second 23:59:59-00:00:00 when a
\* UTC midnight lies in the interval the field measures; nothing before the
\* first poll is counted.
C2_TwoPolls ==
    \A i \in 1..Len(run.calls) : TwoPollsCall(i) =>
        LET T == Reference
        IN  /\ Row(i).uptime_last_hour =
                  Round6(Minutes(30) - MidnightIn(T - Minutes(60), T - Minutes(30)), 1)
            /\ Row(i).downtime_last_hour =
                  Round6(Minutes(30) - MidnightIn(T - Minutes(30), T), 1)
            /\ Row(i).uptime_last_day =
                  Round6(Minutes(60) - MidnightIn(T - Minutes(90), T - Minutes(30)), 60)
            /\ Row(i).downtime_last_day =
                  Round6(Minutes(30) - MidnightIn(T - Minutes(30), T), 60)
            /\ Row(i).uptime_last_week = Row(i).uptime_last_day
            /\ Row(i).downtime_last_week = Row(i).downtime_last_day

\* the scenario away from midnight: 30, 30, 1.0 and 0.5
C2_Witness ==
    \E i \in 1..Len(run.calls) :
        /\ TwoPollsCall(i)
        /\ Row(i).uptime_last_hour = 30000000
        /\ Row(i).downtime_last_hour = 30000000
        /\ Row(i).uptime_last_day = 1000000
        /\ Row(i).downtime_last_day = 500000

\* whether the location counts as open during the second that starts at
\* instant t: inside a range of t's local weekday, or before the end of a
\* midnight-crossing range of the weekday before
OpenAt(store_id, tz, t) ==
    LET d == LocalDate(tz, t)
        tod == LocalTimeOfDay(tz, t)
        today == get_business_hours(business_hours, store_id, d % 7).ranges
        yesterday == get_business_hours(business_hours, store_id, (d + 6) % 7).ranges
    IN  \/ \E r \in today : IF r.start < r.end THEN r.start <= tod /\ tod < r.end
                            ELSE r.start <= tod
        \/ \E r \in yesterday : r.end <= r.start /\ tod < r.end

\* the overlaps a returned call accumulated, for each order of its logs
CountedOverlaps(i) ==
    UNION {Overlaps(business_hours, StoreOf(i), ZoneOf(StoreOf(i)), logs, Reference) :
             logs \in QueryLogs(store_status, StoreOf(i), Reference - SecondsPerWeek)}

\* the scenario of C3: one rule 09:00-17:00 on the day's weekday, one active
\* poll at 08:00 local, the reference at 10:00 local the same day
NineToFiveCall(i) ==
    /\ i \in ReturnedCalls
    /\ \E r \in LogsOf(StoreOf(i)) :
          /\ LogsOf(StoreOf(i)) = {r}
          /\ r.status = "active"
          /\ LocalTimeOfDay(ZoneOf(StoreOf(i)), r.timestamp_utc) = TimeOf(8, 0, 0)
          /\ LocalDate(ZoneOf(StoreOf(i)), r.timestamp_utc)
                = LocalDate(ZoneOf(StoreOf(i)), Reference)
          /\ HoursOf(StoreOf(i)) =
                {[store_id |-> StoreOf(i),
                  day_of_week |-> Weekday(ZoneOf(StoreOf(i)), r.timestamp_utc),
                  start_time_local |-> TimeValue(9, 0, 0),
                  end_time_local |-> TimeValue(17, 0, 0)]}
    /\ LocalTimeOfDay(ZoneOf(StoreOf(i)), Reference) = TimeOf(10, 0, 0)

\* C3: every duration a call accumulates lies inside the poll's validity
\* interval, not after the reference, and inside open time; and in the
\* 09:00-17:00 scenario uptime_last_day is exactly 1 hour and every downtime
\* field is 0.
C3_OnlyOpenTimeCounts ==
    \A i \in ReturnedCalls :
        /\ WeekLogs(StoreOf(i)) # {} =>
              \A o \in CountedOverlaps(i) :
                  /\ o.overlap_start < o.overlap_end
                  /\ o.overlap_end <= Reference
                  /\ \E r \in WeekLogs(StoreOf(i)) : r.timestamp_utc <= o.overlap_start
                  /\ OpenAt(StoreOf(i), ZoneOf(StoreOf(i)), o.overlap_start)
                  /\ OpenAt(StoreOf(i), ZoneOf(StoreOf(i)), o.overlap_end - 1)
        /\ NineToFiveCall(i) =>
              /\ Row(i).uptime_last_day = 1000000
              /\ Row(i).downtime_last_hour = 0
              /\ Row(i).downtime_last_day = 0
              /\ Row(i).downtime_last_week = 0

\* the 09:00-17:00 scenario is reached (and gives 1 hour)
C3_ScenarioReached ==
    \E i \in ReturnedCalls : NineToFiveCall(i) /\ Row(i).uptime_last_day = 1000000

\* the normalized ranges of a store's rows (rows that normalize)
Crosses(r) ==
    /\ _normalize_to_time(r.start_time_local).ok
    /\ _normalize_to_time(r.end_time_local).ok
    /\ _normalize_to_time(r.end_time_local).value
          <= _normalize_to_time(r.start_time_local).value

\* the scenario of C4: a midnight-crossing rule r on the poll's weekday, a
\* single poll at the rule's start, the reference at the rule's end the next
\* day, and the next weekday's own rows opening no earlier than that
CrossingRangeCall(i, r) ==
    LET tz == ZoneOf(StoreOf(i))
        start == _normalize_to_time(r.start_time_local).value
        end == _normalize_to_time(r.end_time_local).value
    IN  /\ i \in ReturnedCalls
        /\ r \in HoursOf(StoreOf(i))
        /\ Crosses(r)
        /\ \E l \in LogsOf(StoreOf(i)) :
              /\ LogsOf(StoreOf(i)) = {l}
              /\ Weekday(tz, l.timestamp_utc) = r.day_of_week
              /\ LocalTimeOfDay(tz, l.timestamp_utc) = start
              /\ Reference = l.timestamp_utc + (SecondsPerDay - start) + end
        /\ \A q \in HoursOf(StoreOf(i)) :
              /\ q.day_of_week \in {r.day_of_week, (r.day_of_week + 1) % 7}
              /\ q.day_of_week = r.day_of_week => q = r
              /\ q.day_of_week # r.day_of_week =>
                    /\ _normalize_to_time(q.start_time_local).ok
                    /\ _normalize_to_time(q.start_time_local).value >= end
        /\ \E q \in HoursOf(StoreOf(i)) : q.day_of_week # r.day_of_week

\* C4: when a single poll's validity interval spans exactly a midnight-
\* crossing range, the time counted is the full wall-clock length of the
\* range (4 hours for 22:00-02:00): nothing at midnight is counted twice or
\* left out.
C4_CrossingRangeCountedInFull ==
    \A i \in 1..Len(run.calls) : \A r \in business_hours :
        CrossingRangeCall(i, r) =>
            UpDown(Row(i), "week") =
                Round6(SecondsPerDay - _normalize_to_time(r.start_time_local).value
                       + _normalize_to_time(r.end_time_local).value, 60)

\* C5: in every record returned, the windows nest: in hours, last hour <=
\* last day <= last week, for uptime and for downtime.
C5_WindowsNest ==
    \A i \in ReturnedCalls :
        /\ Row(i).uptime_last_hour \div 60 <= Row(i).uptime_last_day
        /\ Row(i).uptime_last_day <= Row(i).uptime_last_week
        /\ Row(i).downtime_last_hour \div 60 <= Row(i).downtime_last_day
        /\ Row(i).downtime_last_day <= Row(i).downtime_last_week

\* a record with business hours stored whose three uptimes differ
C5_Witness ==
    \E i \in ReturnedCalls :
        /\ HoursOf(StoreOf(i)) # {}
        /\ Row(i).uptime_last_hour > 0
        /\ Row(i).uptime_last_hour \div 60 < Row(i).uptime_last_day
        /\ Row(i).uptime_last_day < Row(i).uptime_last_week
        /\ Row(i).downtime_last_week > 0

\* C6: a call for a location with no poll in the trailing week returns the
\* all-zero record and raises nothing, whatever timezone and business-hour
\* rows the location has.
C6_NoLogsGivesZeros ==
    \A i \in 1..Len(run.calls) :
        WeekLogs(StoreOf(i)) = {} =>
            /\ run.calls[i].ok
            /\ Row(i) = ZeroRow(StoreOf(i))

\* the stores with a poll in the week window ending at the reference
WeekStores == {id \in StoreIds(store_status) : WeekLogs(id) # {}}

RowStores == {run.rows[i].store_id : i \in 1..Len(run.rows)}

\* C9 as stated: a run writes exactly one row for each location with a poll
\* in the week window ending at the reference, and no row for any other.
C9_RowsAreWeekStores ==
    (run.done /\ run.ok) =>
        /\ RowStores = WeekStores
        /\ Len(run.rows) = Cardinality(WeekStores)

\* C9 amended: a run that completes writes exactly one row for each distinct
\* location of the whole store_status table, each computed against the
\* maximum timestamp of the table; a location all of whose polls are older
\* than a week gets an all-zero row, and a location with timezone or
\* business-hour rows but no polls gets none.
C9_RowsAreAllStores ==
    (run.done /\ run.ok) =>
        /\ RowStores = {r.store_id : r \in store_status}
        /\ Len(run.rows) = Cardinality(RowStores)
        /\ [path |-> run.path, rows |-> run.rows] \in files
        /\ \A i \in 1..Len(run.rows) :
              /\ WeekLogs(run.rows[i].store_id) = {}
                    => run.rows[i] = ZeroRow(run.rows[i].store_id)
              /\ \E t \in {r.timestamp_utc : r \in store_status} :
                    /\ \A r \in store_status : r.timestamp_utc <= t
                    /\ Returned(run.rows[i]) \in
                          calculate_uptime_downtime(store_status, business_hours,
                                                    store_timezone, run.rows[i].store_id, t)
        /\ \A r \in store_timezone \cup business_hours :
              LogsOf(r.store_id) = {} => r.store_id \notin RowStores

\* a completed run with a row for a store polled only more than a week ago,
\* while S1 has timezone rows and no polls
C9_Witness ==
    /\ run.done /\ run.ok
    /\ \E i \in 1..Len(run.rows) :
          /\ WeekLogs(run.rows[i].store_id) = {}
          /\ LogsOf(run.rows[i].store_id) # {}
    /\ \E i \in 1..Len(run.rows) : UpDown(run.rows[i], "week") > 0
    /\ Len(run.rows) = 2

\* a completed run while S1 has a timezone row and no polls
C9_NoPollsNoRow ==
    /\ run.done /\ run.ok
    /\ \E r \in store_timezone : LogsOf(r.store_id) = {}
    /\ Len(run.rows) = 1

\* the rules of C10: every row normalizes, none crosses midnight, and the
\* rows of one weekday are pairwise disjoint
DisjointDayRules(store_id) ==
    /\ \A r \in HoursOf(store_id) :
          /\ _normalize_to_time(r.start_time_local).ok
          /\ _normalize_to_time(r.end_time_local).ok
          /\ _normalize_to_time(r.start_time_local).value
                < _normalize_to_time(r.end_time_local).value
    /\ \A r, q \in HoursOf(store_id) :
          (r # q /\ r.day_of_week = q.day_of_week) =>
              \/ _normalize_to_time(r.end_time_local).value
                    <= _normalize_to_time(q.start_time_local).value
              \/ _normalize_to_time(q.end_time_local).value
                    <= _normalize_to_time(r.start_time_local).value

BoundedCall(i) ==
    /\ i \in ReturnedCalls
    /\ IsFixedOffset(ZoneOf(StoreOf(i)))
    /\ DisjointDayRules(StoreOf(i))

\* C10: in a fixed-offset zone with rules that never cross midnight and are
\* pairwise disjoint within each weekday, all six fields are >= 0 and
\* uptime + downtime of each window is at most the window's duration.
C10_SumWithinWindow ==
    \A i \in 1..Len(run.calls) : BoundedCall(i) =>
        /\ Row(i).uptime_last_hour >= 0 /\ Row(i).downtime_last_hour >= 0
        /\ Row(i).uptime_last_day >= 0 /\ Row(i).downtime_last_day >= 0
        /\ Row(i).uptime_last_week >= 0 /\ Row(i).downtime_last_week >= 0
        /\ \A w \in WindowNames :
              UpDown(Row(i), w) <= Round6(Windows[w].back, Windows[w].unit)

\* two disjoint Sunday rules, several polls, both states counted, the last
\* hour counted in full
C10_Witness ==
    \E i \in 1..Len(run.calls) :
        /\ BoundedCall(i)
        /\ Cardinality(HoursOf(StoreOf(i))) = 2
        /\ Cardinality(WeekLogs(StoreOf(i))) >= 2
        /\ Row(i).uptime_last_week > 0 /\ Row(i).downtime_last_week > 0
        /\ UpDown(Row(i), "hour") = 60000000

----------------------------------------------------------------------------
(* Properties of the job status *)

Finished == {"Complete", "Failed"}

\* what holds of every issued job in every state: Running until its task has
\* finished, then Complete with its own file (already written) or Failed
\* with an error message
JobStatusOK ==
    /\ DOMAIN report_status = DOMAIN tasks
    /\ \A j \in DOMAIN report_status :
          /\ report_status[j].status \in {"Running"} \cup Finished
          /\ report_status[j].status = "Running" <=> tasks[j].pc # "done"
          /\ report_status[j].status = "Complete" =>
                /\ report_status[j].file = tasks[j].output_path
                /\ report_status[j].file.report_id = j
                /\ \E f \in files : f.path = report_status[j].file
          /\ report_status[j].status = "Failed" => report_status[j].error # None
    /\ (response.kind = "get" /\ response.report_id \in DOMAIN report_status)
          => response.status \in {"Running"} \cup Finished

\* what holds of every step: a new identifier starts Running, a finished job
\* never changes again, and a status changes only when that job's own task
\* finishes
JobStatusStep ==
    /\ DOMAIN report_status \subseteq DOMAIN report_status'
    /\ \A j \in DOMAIN report_status' :
          IF j \notin DOMAIN report_status
          THEN report_status'[j].status = "Running"
          ELSE /\ report_status[j].status \in Finished
                     => report_status'[j] = report_status[j]
               /\ report_status'[j] # report_status[j] =>
                     /\ report_status[j].status = "Running"
                     /\ report_status'[j].status \in Finished
                     /\ tasks[j].pc \in {"returned", "raised"}
                     /\ tasks'[j].pc = "done"
                     /\ report_status'[j].status = "Complete" <=> tasks[j].pc = "returned"
                     /\ \A k \in DOMAIN report_status \ {j} :
                           report_status'[k] = report_status[k]

\* C7: under every interleaving of trigger_report, get_report and the
\* background tasks, each job's status goes Running -> Complete or Running ->
\* Failed and nothing else; Complete carries the job's own file path, set
\* after generate_report returned; a finished status never changes; one
\* job's task never alters another job's status.
C7_StatusLifecycle == [](JobStatusOK) /\ [][JobStatusStep]_vars

\* one job Complete and polled as Complete while a later job is still Running
C7_Witness ==
    /\ 1 \in DOMAIN report_status /\ 2 \in DOMAIN report_status
    /\ report_status[1].status = "Complete"
    /\ report_status[2].status = "Running"
    /\ tasks[2].pc = "returned"
    /\ response.kind = "get" /\ response.report_id = 1 /\ response.status = "Complete"

Malformed(r) ==
    \/ ~ _normalize_to_time(r.start_time_local).ok
    \/ ~ _normalize_to_time(r.end_time_local).ok

\* the aggregation reads the rows of r's store and weekday: the store's
\* timezone resolves, it has a poll in the trailing week, and a validity
\* interval of it touches a local day of that weekday
IsRead(r) ==
    /\ get_store_timezone(store_timezone, r.store_id).ok
    /\ \E logs \in QueryLogs(store_status, r.store_id, Reference - SecondsPerWeek) :
          \E i \in 1..Len(logs) :
              \E c \in DayCursors(ZoneOf(r.store_id), logs[i].timestamp_utc,
                                  NextTime(logs, i, Reference)) :
                  Weekday(ZoneOf(r.store_id), c) = r.day_of_week

\* the job's run raised: it never returned a path, wrote no file, and the
\* job ends Failed with the error's description
RunAborted(j) ==
    /\ tasks[j].pc # "returned"
    /\ report_status[j].status # "Complete"
    /\ \A f \in files : f.path # tasks[j].output_path
    /\ tasks[j].pc = "done" =>
          /\ report_status[j].status = "Failed"
          /\ report_status[j].error # None

\* C8 as stated: whenever a stored business-hour row cannot be normalized,
\* the run aborts: the job ends Failed with the error's description, never
\* Complete, and no report file is written.
C8_MalformedRowAbortsRun ==
    \A j \in DOMAIN tasks :
        (\E r \in business_hours : Malformed(r)) => RunAborted(j)

\* C8 amended: whenever a stored business-hour row that cannot be normalized
\* is among the rows the aggregation reads, the run aborts: the job ends
\* Failed with the error's description, never Complete, and no report file
\* is written.  (A malformed row that is never read does not abort the run.)
C8_ReadMalformedRowAbortsRun ==
    \A j \in DOMAIN tasks :
        (store_status # {} /\ \E r \in business_hours : Malformed(r) /\ IsRead(r))
            => RunAborted(j)

\* a job that ended Failed on a malformed row that was read
C8_Witness ==
    \E j \in DOMAIN tasks :
        /\ store_status # {}
        /\ \E r \in business_hours : Malformed(r) /\ IsRead(r)
        /\ tasks[j].pc = "done"
        /\ report_status[j].status = "Failed"
        /\ report_status[j].error = "ValueError"
        /\ response.kind = "get" /\ response.report_id = j /\ response.status = "Failed"

====
